---- MODULE Spec2Model ----
(***************************************************************************)
(* Model of the dress catalogue application (src/app.py): the catalogue    *)
(* and admins worksheets, the images folder of the repository, and the     *)
(* handlers of the admin panel (add item, toggle sold, sign up, log in).   *)
(*                                                                         *)
(* Python values are modelled as records [k, n, s]:                        *)
(*   k = "int"   : the integer n                                           *)
(*   k = "float" : the float n/10 (one decimal digit is kept)              *)
(*   k = "str"   : the text s, a sequence of one-character strings         *)
(*   k = "none"  : None                                                    *)
(*   k = "nan"   : the float NaN                                           *)
(* The worksheets hold the values as get_all_records() hands them to the   *)
(* application and as the application hands them to append_row() and       *)
(* update_cell().                                                          *)
(***************************************************************************)
EXTENDS Integers, Sequences, FiniteSets, TLC

(***************************************************************************)
(* Bounds of the model.                                                    *)
(***************************************************************************)
MaxTextLen == 3
MaxRows == 2
MaxStoreRows == 2
MaxAdmins == 2

(***************************************************************************)
(* Python values.                                                          *)
(***************************************************************************)
IntV(i) == [k |-> "int", n |-> i, s |-> << >>]
FloatV(t) == [k |-> "float", n |-> t, s |-> << >>]
StrV(t) == [k |-> "str", n |-> 0, s |-> t]
NoneV == [k |-> "none", n |-> 0, s |-> << >>]
NaNV == [k |-> "nan", n |-> 0, s |-> << >>]

Digit == <<"0", "1", "2", "3", "4", "5", "6", "7", "8", "9">>
IsDigit(c) == \E d \in 1..10 : Digit[d] = c
DigitVal(c) == (CHOOSE d \in 1..10 : Digit[d] = c) - 1

Abs(i) == IF i < 0 THEN -i ELSE i

\* int(x) and astype(int) of a float given in tenths: truncation toward zero.
Trunc(t) == IF t >= 0 THEN t \div 10 ELSE -((-t) \div 10)

RECURSIVE Digits(_)
Digits(i) == IF i < 10 THEN <<Digit[i + 1]>>
             ELSE Digits(i \div 10) \o <<Digit[(i % 10) + 1]>>

IntStr(i) == IF i < 0 THEN <<"-">> \o Digits(-i) ELSE Digits(i)

FloatStr(t) == (IF t < 0 THEN <<"-">> ELSE << >>)
               \o Digits(Abs(t) \div 10) \o <<".">> \o <<Digit[(Abs(t) % 10) + 1]>>

\* str(v)
PyStr(v) == CASE v.k = "int" -> IntStr(v.n)
              [] v.k = "float" -> FloatStr(v.n)
              [] v.k = "str" -> v.s
              [] v.k = "none" -> <<"N", "o", "n", "e">>
              [] v.k = "nan" -> <<"n", "a", "n">>

RECURSIVE LStrip(_)
LStrip(t) == IF t # << >> /\ Head(t) = " " THEN LStrip(Tail(t)) ELSE t

RECURSIVE RStrip(_)
RStrip(t) == IF t # << >> /\ t[Len(t)] = " " THEN RStrip(SubSeq(t, 1, Len(t) - 1)) ELSE t

\* str.strip()
Strip(t) == RStrip(LStrip(t))

LowerChar(c) == CASE c = "Y" -> "y" [] c = "E" -> "e" [] c = "S" -> "s"
                  [] c = "T" -> "t" [] c = "R" -> "r" [] c = "U" -> "u"
                  [] c = "A" -> "a" [] c = "F" -> "f" [] c = "L" -> "l"
                  [] c = "N" -> "n" [] c = "O" -> "o" [] c = "B" -> "b"
                  [] OTHER -> c

\* str.lower()
Lower(t) == [i \in 1..Len(t) |-> LowerChar(t[i])]

(***************************************************************************)
(* pandas numbers: [nan, t, isint], the value t/10 unless nan; isint says  *)
(* that the element was read as an integer (it decides the column dtype).  *)
(***************************************************************************)
NumNaN == [nan |-> TRUE, t |-> 0, isint |-> FALSE]
Num(t, isint) == [nan |-> FALSE, t |-> t, isint |-> isint]

RECURSIVE DigitsVal(_)
DigitsVal(t) == IF t = << >> THEN 0
                ELSE 10 * DigitsVal(SubSeq(t, 1, Len(t) - 1)) + DigitVal(t[Len(t)])

AllDigits(t) == t # << >> /\ \A i \in 1..Len(t) : IsDigit(t[i])

\* What pd.to_numeric reads in a text: surrounding blanks skipped, an optional
\* sign, decimal digits. The texts of the model hold no ".", "e", "inf" or "nan":
\* fractional numbers reach the application as floats.
ParseNumber(t) ==
    LET u == Strip(t)
        neg == u # << >> /\ Head(u) = "-"
        d == IF neg THEN Tail(u) ELSE u
    IN IF AllDigits(d)
       THEN Num((IF neg THEN -10 ELSE 10) * DigitsVal(d), TRUE)
       ELSE NumNaN

\* pd.to_numeric(x, errors="coerce") of one element
ToNumeric(v) == CASE v.k = "int" -> Num(10 * v.n, TRUE)
                  [] v.k = "float" -> Num(v.n, FALSE)
                  [] v.k = "str" -> ParseNumber(v.s)
                  [] OTHER -> NumNaN

(***************************************************************************)
(* Worksheets. A worksheet is its header row and its data rows, each data  *)
(* row a sequence of cells in header order. The headers used are free of   *)
(* blank and repeated names (get_all_records() refuses any other).         *)
(***************************************************************************)
Blank == StrV(<< >>)

Range(f) == {f[i] : i \in DOMAIN f}

\* sheet.get_all_records(): one dict per data row, keyed by the header names
GetAllRecords(ws) ==
    [i \in 1..Len(ws.rows) |->
        [c \in Range(ws.header) |->
            ws.rows[i][CHOOSE j \in 1..Len(ws.header) : ws.header[j] = c]]]

\* r.get(c)
Get(r, c) == IF c \in DOMAIN r THEN r[c] ELSE NoneV

\* sheet.row_values(1)
RowValues1(ws) == ws.header

(***************************************************************************)
(* load_data                                                               *)
(***************************************************************************)
expected_cols == <<"id", "name", "price", "discount", "expected_price",
                   "image_url", "sold", "likes">>

SoldTokens == {<<"t", "r", "u", "e">>, <<"y", "e", "s">>, <<"y">>, <<"1">>}

\* df[c] of one row: the record's value, "" for an expected column the sheet lacks
Column(r, c) == IF c \in DOMAIN r THEN r[c] ELSE Blank

\* NormSold without the strip()
NormSoldNoStrip(v) == Lower(PyStr(v)) \in SoldTokens

\* line 64: the sold column
NormSold(v) == Lower(Strip(PyStr(v))) \in SoldTokens

\* line 65: the likes column: to_numeric, fillna(0), astype(int)
NormLikes(v) == LET x == ToNumeric(v) IN IF x.nan THEN 0 ELSE Trunc(x.t)

\* NormId with the fillna(0) of the likes column
NormIdFillZero(v) == LET x == ToNumeric(v) IN IF x.nan THEN Num(0, TRUE) ELSE x

\* line 68: the id column
NormId(v) == ToNumeric(v)

\* dtype of a to_numeric column: int64 when every element is an integer,
\* float64 as soon as one is a float or NaN
ColumnDtype(xs) == IF \A i \in 1..Len(xs) : ~xs[i].nan /\ xs[i].isint
                   THEN "int64" ELSE "float64"

LoadData(ws) ==
    LET records == GetAllRecords(ws)
        rows == [i \in 1..Len(records) |->
                    [id |-> NormId(Column(records[i], "id")),
                     sold |-> NormSold(Column(records[i], "sold")),
                     likes |-> NormLikes(Column(records[i], "likes")),
                     name |-> Column(records[i], "name"),
                     price |-> Column(records[i], "price"),
                     discount |-> Column(records[i], "discount"),
                     expected_price |-> Column(records[i], "expected_price"),
                     image_url |-> Column(records[i], "image_url")]]
    IN [rows |-> rows,
        id_dtype |-> ColumnDtype([i \in 1..Len(rows) |-> rows[i].id])]

\* df["id"].astype(str) of one element
AsTypeStr(x, dtype) == IF x.nan THEN <<"n", "a", "n">>
                       ELSE IF dtype = "int64" THEN IntStr(Trunc(x.t))
                       ELSE FloatStr(x.t)

(***************************************************************************)
(* Sheet helpers                                                           *)
(***************************************************************************)
\* append_row_to_sheet_dict with row_dict.get(h): None for a missing key
AppendRowNoDefault(ws, row_dict) ==
    LET headers == ws.header
        row == [j \in 1..Len(headers) |->
                   IF headers[j] \in DOMAIN row_dict THEN row_dict[headers[j]] ELSE NoneV]
    IN [ws EXCEPT !.rows = Append(ws.rows, row)]

\* append_row_to_sheet_dict: row = [row_dict.get(h, "") for h in headers]
AppendRowToSheetDict(ws, row_dict) ==
    LET headers == RowValues1(ws)
        row == [j \in 1..Len(headers) |->
                   IF headers[j] \in DOMAIN row_dict THEN row_dict[headers[j]] ELSE Blank]
    IN [ws EXCEPT !.rows = Append(ws.rows, row)]

\* headers.index(k) + 1
HeaderIndex(headers, c) ==
    CHOOSE j \in 1..Len(headers) :
        headers[j] = c /\ \A i \in 1..(j - 1) : headers[i] # c

\* IdMatches comparing the ids as numbers
IdMatchesNumeric(ws, item_id) ==
    LET records == GetAllRecords(ws)
    IN {i \in 1..Len(records) : ToNumeric(Get(records[i], "id")) = ToNumeric(item_id)}

\* line 184: the data rows whose id, as a string, is str(item_id)
IdMatches(ws, item_id) ==
    LET records == GetAllRecords(ws)
    IN {i \in 1..Len(records) : PyStr(Get(records[i], "id")) = PyStr(item_id)}

Min(S) == CHOOSE x \in S : \A y \in S : x <= y

\* update_sheet_row_by_id without the return inside the loop: every matching
\* row is updated
UpdateEveryMatch(ws, item_id, update_dict) ==
    LET hits == IdMatches(ws, item_id)
        headers == RowValues1(ws)
    IN [ok |-> hits # {},
        ws |-> [ws EXCEPT !.rows =
                   [i \in 1..Len(ws.rows) |->
                       [j \in 1..Len(headers) |->
                           IF i \in hits /\ headers[j] \in DOMAIN update_dict
                           THEN update_dict[headers[j]]
                           ELSE ws.rows[i][j]]]]]

\* update_sheet_row_by_id: the first matching row gets one update_cell per key
\* of update_dict that is a header; [ok, ws] are the return value and the
\* worksheet after the call.
UpdateSheetRowById(ws, item_id, update_dict) ==
    LET hits == IdMatches(ws, item_id)
        headers == RowValues1(ws)
    IN IF hits = {} THEN [ok |-> FALSE, ws |-> ws]
       ELSE LET idx == Min(hits)
                row == [j \in 1..Len(headers) |->
                           IF /\ headers[j] \in DOMAIN update_dict
                              /\ HeaderIndex(headers, headers[j]) = j
                           THEN update_dict[headers[j]]
                           ELSE ws.rows[idx][j]]
            IN [ok |-> TRUE, ws |-> [ws EXCEPT !.rows[idx] = row]]

(***************************************************************************)
(* State.                                                                  *)
(*   sheet   the catalogue worksheet                                       *)
(*   admins  the admins worksheet, or NoSheet while it does not exist      *)
(*   images  the images folder of the repository: file name -> bytes       *)
(*   cfg     the secrets read by the handlers                              *)
(*   session each session's st.session_state: is_admin, admin_user         *)
(*   pc, loc each admin session's position in its handler and its locals   *)
(*   ret     the last operation that completed: its arguments and what it  *)
(*           returned or reported                                          *)
(*   clean   no add-item flow has appended to a catalogue other than the   *)
(*           one it read                                                   *)
(***************************************************************************)
VARIABLES sheet, admins, images, cfg, session, pc, loc, ret, clean

vars == <<sheet, admins, images, cfg, session, pc, loc, ret, clean>>

Sessions == {1, 2}
NoSheet == [exists |-> FALSE, header |-> << >>, rows |-> << >>]
NoSession == [is_admin |-> FALSE, admin_user |-> NoneV]
NoRet == [op |-> "none"]
NoLoc == [op |-> "none"]
NoCfg == [max_repo_bytes |-> 0, placeholder_image |-> Blank]

(***************************************************************************)
(* load_data on its own: the worksheet is drawn from the sheets whose rows *)
(* hold one cell value in every column, so that each column's              *)
(* normalisation meets every cell value.                                   *)
(***************************************************************************)
Alphabet == {"y", "e", "s", "Y", "0", "1", "-", " "}

Texts == UNION {[1..n -> Alphabet] : n \in 0..MaxTextLen}

ExtraTexts == {<<"t", "r", "u", "e">>, <<"T", "R", "U", "E">>, <<"T", "r", "u", "e", " ">>,
               <<"F", "A", "L", "S", "E">>, <<"n", "o">>, <<" ", "Y", "E", "S", " ">>,
               <<"a", "b", "c">>, <<"-", "1", "2">>}

NumberCells == {IntV(i) : i \in {-12, -2, -1, 0, 1, 2, 10}}
               \cup {FloatV(t) : t \in {-15, -10, -5, 0, 5, 10, 27}}

Cells == NumberCells \cup {StrV(t) : t \in Texts \cup ExtraTexts}

SecondCells == {IntV(2), FloatV(15), StrV(<<"a", "b", "c">>),
                StrV(<<" ", "Y", "e", "s">>), Blank}

LoadHeaders == {expected_cols, <<"sold", "id", "name">>, <<"likes", "colour">>}

ProbeRow(h, c) == [j \in 1..Len(h) |-> c]

InitLoad ==
    /\ \E h \in LoadHeaders :
          \/ sheet = [exists |-> TRUE, header |-> h, rows |-> << >>]
          \/ \E c \in Cells :
                sheet = [exists |-> TRUE, header |-> h, rows |-> <<ProbeRow(h, c)>>]
          \/ \E c \in Cells, d \in SecondCells :
                sheet = [exists |-> TRUE, header |-> h,
                         rows |-> <<ProbeRow(h, c), ProbeRow(h, d)>>]
    /\ admins = NoSheet
    /\ images = << >>
    /\ cfg = NoCfg
    /\ session = [s \in Sessions |-> NoSession]
    /\ pc = [s \in Sessions |-> "idle"]
    /\ loc = [s \in Sessions |-> NoLoc]
    /\ ret = NoRet
    /\ clean = TRUE

LoadDataCall ==
    /\ ret.op = "none"
    /\ ret' = [op |-> "load_data", df |-> LoadData(sheet)]
    /\ UNCHANGED <<sheet, admins, images, cfg, session, pc, loc, clean>>

NextLoad == LoadDataCall

SpecLoad == InitLoad /\ [][NextLoad]_vars

(***************************************************************************)
(* The sheet helpers on their own: calls of append_row_to_sheet_dict and   *)
(* update_sheet_row_by_id on catalogues whose header rows differ, with     *)
(* dicts that miss header names and carry names the header lacks, and the  *)
(* one caller of update_sheet_row_by_id, the sold toggle of the admin      *)
(* panel.                                                                  *)
(***************************************************************************)
T_TRUE == StrV(<<"T", "R", "U", "E">>)
T_FALSE == StrV(<<"F", "A", "L", "S", "E">>)

StoreHeaders == {<<"id", "name", "sold">>, <<"sold", "id">>, <<"name", "sold">>}

RowDicts == {[id |-> IntV(1), name |-> StrV(<<"a">>), sold |-> T_FALSE],
             [id |-> IntV(1), sold |-> T_TRUE, likes |-> IntV(0)],
             [id |-> StrV(<<"0", "1">>), name |-> StrV(<<"a">>)],
             [id |-> FloatV(10), colour |-> StrV(<<"r">>)]}

UpdateDicts == {[sold |-> T_TRUE],
                [name |-> StrV(<<"c">>), colour |-> StrV(<<"r">>)],
                [id |-> IntV(1), sold |-> T_FALSE]}

ItemIds == {StrV(<<"1">>), StrV(<<"0", "1">>), StrV(<<"1", ".", "0">>),
            StrV(<<"N", "o", "n", "e">>)}

SelectedIds == {<< >>, <<"1">>, <<"1", ".", "0">>, <<"n", "a", "n">>}

InitStore ==
    /\ \E h \in StoreHeaders : sheet = [exists |-> TRUE, header |-> h, rows |-> << >>]
    /\ admins = NoSheet
    /\ images = << >>
    /\ cfg = NoCfg
    /\ session = [s \in Sessions |-> NoSession]
    /\ pc = [s \in Sessions |-> "idle"]
    /\ loc = [s \in Sessions |-> NoLoc]
    /\ ret = NoRet
    /\ clean = TRUE

AppendCall(row_dict) ==
    /\ Len(sheet.rows) < MaxStoreRows
    /\ sheet' = AppendRowToSheetDict(sheet, row_dict)
    /\ ret' = [op |-> "append", row_dict |-> row_dict, before |-> sheet, after |-> sheet']
    /\ UNCHANGED <<admins, images, cfg, session, pc, loc, clean>>

UpdateCall(item_id, update_dict) ==
    LET r == UpdateSheetRowById(sheet, item_id, update_dict)
    IN /\ sheet' = r.ws
       /\ ret' = [op |-> "update", item_id |-> item_id, update_dict |-> update_dict,
                  ok |-> r.ok, before |-> sheet, after |-> sheet']
       /\ UNCHANGED <<admins, images, cfg, session, pc, loc, clean>>

\* line 375: the rows of df whose id, as a string, is the id entered
ToggleMatches(df, selected_id) ==
    {i \in 1..Len(df.rows) : AsTypeStr(df.rows[i].id, df.id_dtype) = selected_id}

\* lines 368-385: load_data, then the button "Toggle Sold Status"
ToggleSold(selected_id) ==
    LET df == LoadData(sheet)
    IN /\ IF selected_id = << >>
          THEN /\ ret' = [op |-> "toggle", outcome |-> "enter_id"]
               /\ UNCHANGED sheet
          ELSE IF ToggleMatches(df, selected_id) = {}
          THEN /\ ret' = [op |-> "toggle", outcome |-> "not_found"]
               /\ UNCHANGED sheet
          ELSE LET cur == df.rows[Min(ToggleMatches(df, selected_id))]
                   update_dict == [sold |-> IF ~cur.sold THEN T_TRUE ELSE T_FALSE]
                   r == UpdateSheetRowById(sheet, StrV(selected_id), update_dict)
               IN /\ sheet' = r.ws
                  /\ ret' = [op |-> "update", item_id |-> StrV(selected_id),
                             update_dict |-> update_dict, ok |-> r.ok,
                             before |-> sheet, after |-> sheet']
       /\ UNCHANGED <<admins, images, cfg, session, pc, loc, clean>>

NextStore ==
    \/ \E row_dict \in RowDicts : AppendCall(row_dict)
    \/ \E item_id \in ItemIds, update_dict \in UpdateDicts : UpdateCall(item_id, update_dict)
    \/ \E selected_id \in SelectedIds : ToggleSold(selected_id)

SpecStore == InitStore /\ [][NextStore]_vars

(***************************************************************************)
(* Admin accounts: the admins worksheet and the handler of the login form. *)
(* hashlib.sha256 is abstracted to a digest of the model's passwords that  *)
(* is a function of the password and is not one-to-one. The user names of  *)
(* the model are texts that are no numerals.                               *)
(***************************************************************************)
CharCode(c) == CASE c = "p" -> 1 [] c = "q" -> 2 [] OTHER -> 3

RECURSIVE CodeSum(_)
CodeSum(t) == IF t = << >> THEN 0 ELSE CharCode(Head(t)) + CodeSum(Tail(t))

\* hash_password: the hex digest, a text
hash_password(password) == <<"h", Digit[(CodeSum(password) % 3) + 1]>>

AdminsHeader == <<"username", "hashed_password">>

\* UsernameMatches without the strip() calls
UsernameMatchesExact(r, username) ==
    PyStr(Get(r, "username")) = PyStr(StrV(username))

\* The row test of admin_exists and verify_admin_login (lines 210, 239)
UsernameMatches(r, username) ==
    Strip(PyStr(Get(r, "username"))) = Strip(PyStr(StrV(username)))

admin_exists(ws, username) ==
    IF ~ws.exists THEN FALSE
    ELSE \E i \in 1..Len(ws.rows) : UsernameMatches(GetAllRecords(ws)[i], username)

\* signup_admin: the worksheet after the call
signup_admin(ws, username, password) ==
    LET admin_ws == IF ws.exists THEN ws
                    ELSE [exists |-> TRUE, header |-> AdminsHeader, rows |-> << >>]
    IN [admin_ws EXCEPT !.rows = Append(admin_ws.rows,
                                        <<StrV(username), StrV(hash_password(password))>>)]

verify_admin_login(ws, username, password) ==
    IF ~ws.exists THEN FALSE
    ELSE LET records == GetAllRecords(ws)
             hashed_input == hash_password(password)
         IN \E i \in 1..Len(records) :
                /\ UsernameMatches(records[i], username)
                /\ PyStr(Get(records[i], "hashed_password")) = hashed_input

Usernames == {<< >>, <<"a">>, <<" ", "a">>, <<"b">>}
Passwords == {<< >>, <<"p">>, <<"q">>, <<"p", "q">>}

InitAuth ==
    /\ sheet = [exists |-> TRUE, header |-> expected_cols, rows |-> << >>]
    /\ admins = NoSheet
    /\ images = << >>
    /\ cfg = NoCfg
    /\ session = [s \in Sessions |-> NoSession]
    /\ pc = [s \in Sessions |-> "idle"]
    /\ loc = [s \in Sessions |-> NoLoc]
    /\ ret = NoRet
    /\ clean = TRUE

\* admin_login, mode "Sign up", up to the call of signup_admin
SubmitSignup(s, username, password) ==
    /\ pc[s] = "idle"
    /\ ~session[s].is_admin
    /\ Len(admins.rows) + Cardinality({t \in Sessions : pc[t] = "signup"}) < MaxAdmins
    /\ IF username = << >> \/ password = << >>
       THEN /\ ret' = [op |-> "signup", sid |-> s, result |-> "missing"]
            /\ UNCHANGED <<pc, loc>>
       ELSE IF admin_exists(admins, username)
       THEN /\ ret' = [op |-> "signup", sid |-> s, result |-> "exists"]
            /\ UNCHANGED <<pc, loc>>
       ELSE /\ pc' = [pc EXCEPT ![s] = "signup"]
            /\ loc' = [loc EXCEPT ![s] = [op |-> "signup", username |-> username,
                                          password |-> password]]
            /\ UNCHANGED ret
    /\ UNCHANGED <<sheet, admins, images, cfg, session, clean>>

\* admin_login, mode "Sign up": signup_admin
SignupAppend(s) ==
    /\ pc[s] = "signup"
    /\ admins' = signup_admin(admins, loc[s].username, loc[s].password)
    /\ ret' = [op |-> "signup", sid |-> s, result |-> "created"]
    /\ pc' = [pc EXCEPT ![s] = "idle"]
    /\ loc' = [loc EXCEPT ![s] = NoLoc]
    /\ UNCHANGED <<sheet, images, cfg, session, clean>>

\* admin_login, mode "Login"
SubmitLogin(s, username, password) ==
    /\ pc[s] = "idle"
    /\ ~session[s].is_admin
    /\ LET ok == verify_admin_login(admins, username, password)
       IN /\ ret' = [op |-> "login", sid |-> s, username |-> username,
                     password |-> password, result |-> ok, table |-> admins]
          /\ session' = IF ok
                        THEN [session EXCEPT ![s] = [is_admin |-> TRUE,
                                                     admin_user |-> StrV(username)]]
                        ELSE session
    /\ UNCHANGED <<sheet, admins, images, cfg, pc, loc, clean>>

NextAuth ==
    \/ \E s \in Sessions, u \in Usernames, p \in Passwords :
          SubmitSignup(s, u, p)
    \/ \E s \in Sessions : SignupAppend(s)
    \/ \E s \in Sessions, u \in Usernames, p \in Passwords : SubmitLogin(s, u, p)

SpecAuth == InitAuth /\ [][NextAuth]_vars

(***************************************************************************)
(* The admin panel: two admin sessions adding items. The handler is cut    *)
(* where it calls the worksheet or the repository, the only places where   *)
(* the other session's calls can fall between its own.                     *)
(***************************************************************************)
\* line 328: the default of max_repo_bytes
DefaultMaxRepoBytes == 500000000

\* The values of max_repo_bytes that the secrets may hold, the bytes in the
\* images folder at the start, and the lengths of the compressed images
MaxRepoBytesChoices == {DefaultMaxRepoBytes, 250000000}
InitialFolder == [f \in {<<"o", ".", "j", "p", "g">>} |-> 400000000]
CompressedSizes == {150000000, 100000000}

Placeholder == StrV(<<"p", "h">>)

NoFile == [kind |-> "none", n |-> 0]
BadFile == [kind |-> "bad", n |-> 0]
Files == {NoFile, BadFile} \cup {[kind |-> "image", n |-> n] : n \in CompressedSizes}

Names == {<< >>, <<"A", " ", "b">>}
Prices == {5}
Discounts == {50}

\* compress_image_file: the length of the JPEG bytes, 0 for None
compress_image_file(file) == IF file.kind = "image" THEN file.n ELSE 0

\* lines 331-332: input_name.strip().lower().replace(" ", "_") + ".jpg"
Filename(input_name) ==
    LET t == Lower(Strip(input_name))
    IN [i \in 1..Len(t) |-> IF t[i] = " " THEN "_" ELSE t[i]] \o <<".", "j", "p", "g">>

RECURSIVE SumSizes(_, _)
SumSizes(f, S) == IF S = {} THEN 0
                  ELSE LET x == CHOOSE x \in S : TRUE IN f[x] + SumSizes(f, S \ {x})

\* get_images_folder_size: the bytes of the blobs under the images path, or
\* 0 when the tree cannot be fetched
get_images_folder_size(fetched) == IF fetched THEN SumSizes(images, DOMAIN images) ELSE 0

\* The images folder after a successful PUT of n bytes at filename
PutImage(folder, filename, n) ==
    [f \in DOMAIN folder \cup {filename} |-> IF f = filename THEN n ELSE folder[f]]

\* line 128: the raw URL of an uploaded file
RawUrl(filename) == StrV(<<"r", "a", "w", "/">> \o filename)

\* The quota gate with >= for >
OverQuotaInclusive(current_size, n, max_bytes) == current_size + n >= max_bytes

\* line 333: the quota gate
OverQuota(current_size, n, max_bytes) == current_size + n > max_bytes

\* line 320 with "and" for "or"
FormRejectedBoth(form) == form.file.kind = "none" /\ form.name = << >>

\* line 320: not uploaded_file or not input_name
FormRejected(form) == form.file.kind = "none" \/ form.name = << >>

\* df["id"].max(), skipping NaN: the largest id in tenths, NaN when there is none
MaxId(df) ==
    LET ids == {df.rows[i].id.t : i \in {j \in 1..Len(df.rows) : ~df.rows[j].id.nan}}
    IN IF ids = {} THEN NumNaN
       ELSE Num(CHOOSE x \in ids : \A y \in ids : y <= x, FALSE)

\* NewId with 0 for the empty catalogue
NewIdFromZero(df) == IF MaxId(df).nan THEN 0 ELSE Trunc(MaxId(df).t) + 1

\* lines 347-351: int(df["id"].max()) + 1, or 1 when int() raises
NewId(df) == IF MaxId(df).nan THEN 1 ELSE Trunc(MaxId(df).t) + 1

\* round(): half to even, of num/100 with num >= 0
Round100(num) ==
    LET q == num \div 100
        r == num % 100
    IN IF r > 50 \/ (r = 50 /\ q % 2 = 1) THEN q + 1 ELSE q

\* line 352
ExpectedPrice(input_price, input_discount) == Round100(input_price * (100 - input_discount))

\* lines 353-362
RowDict(f, image_url, new_id) ==
    [id |-> IntV(new_id), name |-> StrV(f.name), price |-> IntV(f.price),
     discount |-> IntV(f.discount),
     expected_price |-> IntV(ExpectedPrice(f.price, f.discount)),
     image_url |-> image_url,
     sold |-> IF f.sold THEN T_TRUE ELSE T_FALSE,
     likes |-> IntV(0)]

Init ==
    /\ sheet = [exists |-> TRUE, header |-> expected_cols, rows |-> << >>]
    /\ admins = NoSheet
    /\ images = InitialFolder
    /\ cfg \in {[max_repo_bytes |-> m, placeholder_image |-> Placeholder] :
                   m \in MaxRepoBytesChoices}
    /\ session = [s \in Sessions |-> [is_admin |-> TRUE, admin_user |-> StrV(<<"a">>)]]
    /\ pc = [s \in Sessions |-> "idle"]
    /\ loc = [s \in Sessions |-> NoLoc]
    /\ ret = NoRet
    /\ clean = TRUE

InFlight == Cardinality({t \in Sessions : pc[t] \in {"size", "upload", "load", "append"}})

\* The locals of an add-item flow
AddLoc(form, n) ==
    [op |-> "add", form |-> form, n |-> n, current_size |-> 0, called |-> FALSE,
     upload |-> "none", image_url |-> Blank, new_id |-> 0, seen |-> 0]

\* lines 319-325: the form is submitted; validation and the image pipeline
SubmitAdd(s, form) ==
    /\ pc[s] = "idle"
    /\ session[s].is_admin
    /\ Len(sheet.rows) + InFlight < MaxRows
    /\ IF FormRejected(form)
       THEN /\ ret' = [op |-> "add", sid |-> s, outcome |-> "rejected",
                       flow |-> AddLoc(form, 0), pos |-> Len(sheet.rows)]
            /\ UNCHANGED <<pc, loc>>
       ELSE IF compress_image_file(form.file) = 0
       THEN /\ ret' = [op |-> "add", sid |-> s, outcome |-> "processing_failed",
                       flow |-> AddLoc(form, 0), pos |-> Len(sheet.rows)]
            /\ UNCHANGED <<pc, loc>>
       ELSE /\ pc' = [pc EXCEPT ![s] = "size"]
            /\ loc' = [loc EXCEPT ![s] = AddLoc(form, compress_image_file(form.file))]
            /\ UNCHANGED ret
    /\ UNCHANGED <<sheet, admins, images, cfg, session, clean>>

\* lines 328-335: get_images_folder_size and the quota gate
CheckQuota(s, fetched) ==
    /\ pc[s] = "size"
    /\ LET current_size == get_images_folder_size(fetched)
       IN IF OverQuota(current_size, loc[s].n, cfg.max_repo_bytes)
          THEN /\ loc' = [loc EXCEPT ![s].current_size = current_size,
                                     ![s].image_url = cfg.placeholder_image]
               /\ pc' = [pc EXCEPT ![s] = "load"]
          ELSE /\ loc' = [loc EXCEPT ![s].current_size = current_size]
               /\ pc' = [pc EXCEPT ![s] = "upload"]
    /\ UNCHANGED <<sheet, admins, images, cfg, session, ret, clean>>

\* lines 337-343: upload_image_to_github_bytes; the PUT succeeds, or is
\* answered with another status (None is returned), or requests raises
Upload(s, outcome) ==
    /\ pc[s] = "upload"
    /\ CASE outcome = "ok" ->
              /\ images' = PutImage(images, Filename(loc[s].form.name), loc[s].n)
              /\ loc' = [loc EXCEPT ![s].called = TRUE, ![s].upload = "ok",
                                    ![s].image_url = RawUrl(Filename(loc[s].form.name))]
              /\ pc' = [pc EXCEPT ![s] = "load"]
              /\ UNCHANGED ret
         [] outcome = "failed" ->
              /\ loc' = [loc EXCEPT ![s].called = TRUE, ![s].upload = "failed",
                                    ![s].image_url = cfg.placeholder_image]
              /\ pc' = [pc EXCEPT ![s] = "load"]
              /\ UNCHANGED <<images, ret>>
         [] outcome = "raised" ->
              /\ ret' = [op |-> "add", sid |-> s, outcome |-> "exception",
                         flow |-> [loc[s] EXCEPT !.called = TRUE, !.upload = "raised"],
                         pos |-> Len(sheet.rows)]
              /\ loc' = [loc EXCEPT ![s] = NoLoc]
              /\ pc' = [pc EXCEPT ![s] = "idle"]
              /\ UNCHANGED images
    /\ UNCHANGED <<sheet, admins, cfg, session, clean>>

\* lines 346-351: load_data and the new id
LoadForAdd(s) ==
    /\ pc[s] = "load"
    /\ loc' = [loc EXCEPT ![s].new_id = NewId(LoadData(sheet)),
                          ![s].seen = Len(sheet.rows)]
    /\ pc' = [pc EXCEPT ![s] = "append"]
    /\ UNCHANGED <<sheet, admins, images, cfg, session, ret, clean>>

\* The row of session s, with the id computed from the catalogue as it is the
\* moment the row is appended
AddItemRowFresh(s) == RowDict(loc[s].form, loc[s].image_url, NewId(LoadData(sheet)))

\* lines 353-362: the row of session s
AddItemRow(s) == RowDict(loc[s].form, loc[s].image_url, loc[s].new_id)

\* line 363: append_row_to_sheet_dict
AppendRow(s) ==
    /\ pc[s] = "append"
    /\ sheet' = AppendRowToSheetDict(sheet, AddItemRow(s))
    /\ ret' = [op |-> "add", sid |-> s, outcome |-> "added", flow |-> loc[s],
               pos |-> Len(sheet'.rows)]
    /\ clean' = (clean /\ loc[s].seen = Len(sheet.rows))
    /\ loc' = [loc EXCEPT ![s] = NoLoc]
    /\ pc' = [pc EXCEPT ![s] = "idle"]
    /\ UNCHANGED <<admins, images, cfg, session>>

Forms == [name : Names, price : Prices, discount : Discounts, sold : BOOLEAN, file : Files]

Next ==
    \/ \E s \in Sessions, form \in Forms : SubmitAdd(s, form)
    \/ \E s \in Sessions, fetched \in BOOLEAN : CheckQuota(s, fetched)
    \/ \E s \in Sessions, outcome \in {"ok", "failed", "raised"} : Upload(s, outcome)
    \/ \E s \in Sessions : LoadForAdd(s)
    \/ \E s \in Sessions : AppendRow(s)

Spec == Init /\ [][Next]_vars

(***************************************************************************)
(* Properties of load_data.                                                *)
(***************************************************************************)
\* The cell that load_data reads for column c of data row i.
RawCell(ws, i, c) == Column(GetAllRecords(ws)[i], c)

\* A text that reads as a number: blanks, an optional "-", then digits only.
IsNumeral(t) ==
    \E a, b \in 0..Len(t) :
        /\ a < b
        /\ \A i \in 1..a : t[i] = " " \/ (i = a /\ t[i] = "-")
        /\ \A i \in 1..(a - 1) : t[i] = " "
        /\ \A i \in (a + 1)..b : IsDigit(t[i])
        /\ \A i \in (b + 1)..Len(t) : t[i] = " "

\* The cell holds a number or a text that reads as one.
Parseable(v) == v.k \in {"int", "float"} \/ (v.k = "str" /\ IsNumeral(v.s))

\* The number, in tenths, that a parseable cell holds.
CellNumber(v) ==
    CASE v.k = "int" -> 10 * v.n
      [] v.k = "float" -> v.n
      [] v.k = "str" ->
           LET ds == SelectSeq(v.s, IsDigit)
               neg == \E i \in 1..Len(v.s) : v.s[i] = "-"
           IN (IF neg THEN -10 ELSE 10) * DigitsVal(ds)

\* The text of a cell without surrounding blanks, letters in lower case.
TrimmedLower(v) == Lower(Strip(PyStr(v)))

SoldIsToken(df, ws) ==
    \A i \in 1..Len(df.rows) :
        /\ df.rows[i].sold \in BOOLEAN
        /\ df.rows[i].sold <=>
              TrimmedLower(RawCell(ws, i, "sold")) \in
                  {<<"t", "r", "u", "e">>, <<"y", "e", "s">>, <<"y">>, <<"1">>}

IdValue(x) == IF x.nan THEN NaNV
              ELSE IF x.isint THEN IntV(Trunc(x.t)) ELSE FloatV(x.t)

\* C8 as stated: an id cell that is no number is returned as it is, and an id
\* cell that is a number is returned as that number.
C8_NonNumericIdKept ==
    ret.op = "load_data" =>
        \A i \in 1..Len(ret.df.rows) :
            LET v == RawCell(sheet, i, "id")
                x == ret.df.rows[i].id
            IN /\ ~Parseable(v) => IdValue(x) = v
               /\ Parseable(v) => ~x.nan /\ x.t = CellNumber(v)

\* C8 amended: an id cell that is no number is returned as NaN (the cell's value
\* is lost), and an id cell that is a number is returned as that number.
C8_NonNumericIdIsNaN ==
    ret.op = "load_data" =>
        /\ Len(ret.df.rows) = Len(sheet.rows)
        /\ \A i \in 1..Len(ret.df.rows) :
              LET v == RawCell(sheet, i, "id")
                  x == ret.df.rows[i].id
              IN /\ ~Parseable(v) => x.nan /\ IdValue(x) # v
                 /\ Parseable(v) => ~x.nan /\ x.t = CellNumber(v)

\* A sheet whose first id is the text "yes", read as NaN, and whose second is 2.
C8_Witness ==
    /\ ret.op = "load_data"
    /\ "id" \in Range(sheet.header)
    /\ Len(sheet.rows) = 2
    /\ RawCell(sheet, 1, "id") = StrV(<<"y", "e", "s">>) /\ ret.df.rows[1].id.nan
    /\ RawCell(sheet, 2, "id") = IntV(2) /\ ret.df.rows[2].id = Num(20, TRUE)

(***************************************************************************)
(* Properties of the sheet helpers.                                        *)
(***************************************************************************)
\* str() of the id that get_all_records gives for data row i: the id cell,
\* or None when the header has no id column.
RowIdText(ws, i) ==
    IF \E j \in 1..Len(ws.header) : ws.header[j] = "id"
    THEN PyStr(ws.rows[i][CHOOSE j \in 1..Len(ws.header) : ws.header[j] = "id"])
    ELSE <<"N", "o", "n", "e">>

RowsWithId(ws, item_id) == {i \in 1..Len(ws.rows) : RowIdText(ws, i) = PyStr(item_id)}

\* C5: update_sheet_row_by_id with an id that no row has returns False and
\* updates no cell: the table is the same after the call, and after a second
\* call with the same arguments.
C5_UpdateAbsentIdNoOp ==
    (ret.op = "update" /\ RowsWithId(ret.before, ret.item_id) = {}) =>
        /\ ret.ok = FALSE
        /\ ret.after = ret.before
        /\ UpdateSheetRowById(ret.after, ret.item_id, ret.update_dict)
              = [ok |-> FALSE, ws |-> ret.before]

\* The id "01" is looked up in a table whose only ids are the number 1.
C5_Witness ==
    /\ ret.op = "update"
    /\ ret.item_id = StrV(<<"0", "1">>)
    /\ ret.before.header = <<"id", "name", "sold">>
    /\ Len(ret.before.rows) = 2
    /\ \A i \in 1..2 : ret.before.rows[i][1] = IntV(1)
    /\ ret.update_dict = [sold |-> T_TRUE]
    /\ ~ret.ok

\* C9: append_row_to_sheet_dict appends exactly one row, as long as the header,
\* whose i-th cell is row_dict[H[i]] when row_dict has that key and "" when it
\* has not (keys that are no header name are written nowhere); neither it nor
\* update_sheet_row_by_id changes the header row.
C9_HeaderFidelity ==
    /\ ret.op = "append" =>
          LET H == ret.before.header
              n == Len(ret.before.rows)
          IN /\ ret.after.header = H
             /\ Len(ret.after.rows) = n + 1
             /\ SubSeq(ret.after.rows, 1, n) = ret.before.rows
             /\ Len(ret.after.rows[n + 1]) = Len(H)
             /\ \A j \in 1..Len(H) :
                   ret.after.rows[n + 1][j] =
                       IF H[j] \in DOMAIN ret.row_dict THEN ret.row_dict[H[j]]
                       ELSE StrV(<< >>)
    /\ ret.op = "update" => ret.after.header = ret.before.header

\* A dict without name and with likes is appended under the header id, name, sold.
C9_Witness ==
    /\ ret.op = "append"
    /\ ret.before.header = <<"id", "name", "sold">>
    /\ DOMAIN ret.row_dict = {"id", "sold", "likes"}
    /\ ret.after.rows[Len(ret.after.rows)] = <<IntV(1), StrV(<< >>), T_TRUE>>

\* C10: update_sheet_row_by_id with an id that some row has returns True and
\* changes the first such row only, and in it only the cells of the columns that
\* update_dict and the header both name, each to the given value; the number and
\* the order of the rows stay, and the update of sold alone changes no id.
C10_UpdateFirstMatchOnly ==
    (ret.op = "update" /\ RowsWithId(ret.before, ret.item_id) # {}) =>
        LET H == ret.before.header
            f == CHOOSE i \in RowsWithId(ret.before, ret.item_id) :
                     \A k \in RowsWithId(ret.before, ret.item_id) : i <= k
        IN /\ ret.ok = TRUE
           /\ ret.after.header = H
           /\ Len(ret.after.rows) = Len(ret.before.rows)
           /\ \A i \in 1..Len(ret.before.rows) :
                 /\ Len(ret.after.rows[i]) = Len(H)
                 /\ \A j \in 1..Len(H) :
                       ret.after.rows[i][j] =
                           IF i = f /\ H[j] \in DOMAIN ret.update_dict
                           THEN ret.update_dict[H[j]]
                           ELSE ret.before.rows[i][j]
                 /\ DOMAIN ret.update_dict = {"sold"} =>
                       RowIdText(ret.after, i) = RowIdText(ret.before, i)

\* Two rows carry the id 1; marking id "1" sold changes the first and leaves the second.
C10_Witness ==
    /\ ret.op = "update"
    /\ ret.ok
    /\ ret.item_id = StrV(<<"1">>)
    /\ ret.update_dict = [sold |-> T_TRUE]
    /\ ret.before.header = <<"id", "name", "sold">>
    /\ Len(ret.before.rows) = 2
    /\ \A i \in 1..2 : ret.before.rows[i] = <<IntV(1), StrV(<<"a">>), T_FALSE>>
    /\ ret.after.rows[1] = <<IntV(1), StrV(<<"a">>), T_TRUE>>
    /\ ret.after.rows[2] = ret.before.rows[2]

(***************************************************************************)
(* Properties of the admin accounts.                                       *)
(***************************************************************************)
\* The rows of the admins table T whose user name, trimmed, is u trimmed.
RowsOfUser(T, u) == {i \in 1..Len(T.rows) : Strip(T.rows[i][1].s) = Strip(u)}

\* C6: after any sign-ups, verify_admin_login(u, p) is True iff some stored row
\* has a user name equal to u, both trimmed, and a hashed_password equal to
\* hash_password(p); a password whose hash differs from every hash stored for u
\* is refused, and so is every login while the admins table is missing.
C6_VerifyIffStoredPair ==
    ret.op = "login" =>
        LET T == ret.table
        IN /\ ret.result <=>
                 \E i \in RowsOfUser(T, ret.username) :
                     T.rows[i][2].s = hash_password(ret.password)
           /\ \A p \in Passwords :
                 (\A i \in RowsOfUser(T, ret.username) : T.rows[i][2].s # hash_password(p))
                     => ~verify_admin_login(T, ret.username, p)
           /\ ~T.exists => ~ret.result
           /\ ret.result => session[ret.sid].is_admin

\* "a" signed up with "p"; the login of " a" with "p" succeeds.
C6_Witness ==
    /\ ret.op = "login"
    /\ ret.result
    /\ ret.username = <<" ", "a">>
    /\ ret.password = <<"p">>
    /\ ret.table.rows[1] = <<StrV(<<"a">>), StrV(hash_password(<<"p">>))>>

\* "a" signed up with "p"; the login of "a" with "q" is refused.
C6_WitnessRefused ==
    /\ ret.op = "login"
    /\ ~ret.result
    /\ ret.username = <<"a">>
    /\ ret.password = <<"q">>
    /\ ret.table.rows = <<<<StrV(<<"a">>), StrV(hash_password(<<"p">>))>>>>

(***************************************************************************)
(* Properties of the add-item flow.                                        *)
(***************************************************************************)
\* The ids that load_data returns for the catalogue ws, as integers.
LoadedIds(ws) == [i \in 1..Len(ws.rows) |-> LoadData(ws).rows[i].id]

Largest(S) == CHOOSE x \in S : \A y \in S : y <= x

\* C1: in a catalogue built by add-item flows that did not interleave, an
\* add-item flow that appends to the catalogue it read leaves, as load_data
\* returns them, the previous rows followed by one new row whose id is the
\* previous maximum id + 1, or 1 when there was no row.
C1_AppendAssignsNextId ==
    [][\A s \in Sessions :
          (pc[s] = "append" /\ pc'[s] = "idle" /\ clean /\ loc[s].seen = Len(sheet.rows)) =>
              LET before == LoadData(sheet).rows
                  after == LoadData(sheet').rows
                  n == Len(before)
              IN /\ Len(after) = n + 1
                 /\ SubSeq(after, 1, n) = before
                 /\ ~after[n + 1].id.nan
                 /\ after[n + 1].id.t =
                       IF n = 0 THEN 10
                       ELSE Largest({before[i].id.t : i \in 1..n}) + 10]_vars

\* Two flows, one after the other, have given the ids 1 and 2.
C1_Witness ==
    /\ clean
    /\ ret.op = "add" /\ ret.outcome = "added" /\ ret.flow.seen = 1 /\ ret.pos = 2
    /\ Len(sheet.rows) = 2
    /\ LoadedIds(sheet)[1] = Num(10, TRUE)
    /\ LoadedIds(sheet)[2] = Num(20, TRUE)

HasDuplicateIds(ws) ==
    \E i, j \in 1..Len(ws.rows) : i < j /\ RowIdText(ws, i) = RowIdText(ws, j)

\* C2: nothing protects the uniqueness of ids: two flows that have read the
\* same catalogue hold the same new id, and once a flow has appended to a
\* catalogue other than the one it read, two rows carry the same id.
C2_RaceDuplicatesId ==
    /\ \A s, t \in Sessions :
          (pc[s] = "append" /\ pc[t] = "append" /\ loc[s].seen = loc[t].seen)
              => loc[s].new_id = loc[t].new_id
    /\ ~clean => HasDuplicateIds(sheet)

\* Both sessions read the empty catalogue before either appended: two rows, both with id 1.
C2_Witness ==
    /\ ret.op = "add" /\ ret.outcome = "added" /\ ret.flow.seen = 0 /\ ret.pos = 2
    /\ Len(sheet.rows) = 2
    /\ sheet.rows[1][1] = IntV(1)
    /\ sheet.rows[2][1] = IntV(1)

\* The image_url cell of data row i.
ImageUrlCell(ws, i) == ws.rows[i][CHOOSE j \in 1..Len(ws.header) : ws.header[j] = "image_url"]

\* C3 as stated: a flow whose name or image is missing, whose image cannot be
\* processed or whose upload fails appends no row.
C3_FailureAppendsNoRow ==
    (/\ ret.op = "add"
     /\ \/ ret.flow.form.name = << >>
        \/ ret.flow.form.file.kind # "image"
        \/ ret.flow.upload \in {"failed", "raised"})
        => ret.outcome # "added"

\* C3 amended: a flow whose name or image is missing or whose image cannot be
\* processed (or whose upload raises) appends no row; a flow whose upload is
\* reported as failed goes on and appends its row with the placeholder URL.
\* The catalogue grows by the last step of such a flow only.
C3_FailureAppendsNoRowButUpload ==
    /\ [](ret.op = "add" =>
            /\ (\/ ret.flow.form.name = << >>
                \/ ret.flow.form.file.kind # "image"
                \/ ret.flow.upload = "raised") => ret.outcome # "added"
            /\ ret.flow.upload = "failed" =>
                  /\ ret.outcome = "added"
                  /\ ImageUrlCell(sheet, ret.pos) = cfg.placeholder_image)
    /\ [][sheet' # sheet =>
            \E s \in Sessions :
                /\ pc[s] = "append" /\ pc'[s] = "idle"
                /\ loc[s].form.name # << >>
                /\ loc[s].form.file.kind = "image"
                /\ loc[s].upload # "raised"
                /\ Len(sheet'.rows) = Len(sheet.rows) + 1
                /\ SubSeq(sheet'.rows, 1, Len(sheet.rows)) = sheet.rows]_vars

\* An upload was reported as failed and the row was appended with the placeholder.
C3_Witness ==
    /\ ret.op = "add" /\ ret.outcome = "added"
    /\ ret.flow.upload = "failed"
    /\ ImageUrlCell(sheet, ret.pos) = Placeholder

\* A form without a name was rejected and the catalogue is empty.
C3_WitnessRejected ==
    /\ ret.op = "add" /\ ret.outcome = "rejected"
    /\ ret.flow.form.name = << >> /\ ret.flow.form.file.kind = "image"
    /\ sheet.rows = << >>

\* What the quota gate says of a flow that has passed it: over the quota, no
\* upload is called and the URL is the placeholder; within it, the upload is
\* the next step or has been called.
GateRespected(f, at_upload) ==
    IF f.current_size + f.n > cfg.max_repo_bytes
    THEN ~at_upload /\ ~f.called /\ f.upload = "none" /\ f.image_url = cfg.placeholder_image
    ELSE at_upload \/ f.called

\* C4: for every folder size s, compressed length n and max_bytes m of a flow,
\* s + n > m means that the flow never calls the upload and that its row carries
\* the placeholder URL, and s + n <= m means that the upload is attempted.
C4_QuotaGate ==
    /\ \A s \in Sessions :
          pc[s] \in {"upload", "load", "append"} => GateRespected(loc[s], pc[s] = "upload")
    /\ (ret.op = "add" /\ ret.outcome \in {"added", "exception"}) =>
          /\ GateRespected(ret.flow, FALSE)
          /\ (ret.outcome = "added"
              /\ ret.flow.current_size + ret.flow.n > cfg.max_repo_bytes)
                => ImageUrlCell(sheet, ret.pos) = cfg.placeholder_image

\* 400000000 bytes in the folder, 150000000 to add, 500000000 allowed: the row
\* is appended with the placeholder and the upload was not called.
C4_Witness ==
    /\ ret.op = "add" /\ ret.outcome = "added"
    /\ ret.flow.current_size = 400000000
    /\ ret.flow.n = 150000000
    /\ cfg.max_repo_bytes = 500000000
    /\ ~ret.flow.called
    /\ ImageUrlCell(sheet, ret.pos) = Placeholder

====
